---- MODULE Spec2Model ----
(***************************************************************************)
(* Session and task orchestration of the OpenHands MCP server              *)
(* (src/src/openhands_mcp_server/session_manager.py, server.py).           *)
(*                                                                         *)
(* The state is the SessionManager object (its registry, its docker        *)
(* client), and the three external systems its methods act on: the         *)
(* filesystem (the sessions directory and the archive directory), the      *)
(* container runtime, and the process environment.  Every public method    *)
(* of SessionManager is one action.  Calls to the external systems have    *)
(* the outcomes their APIs document: a runtime lookup raises for a         *)
(* container that is gone and may raise for any other (an API error), a    *)
(* recursive copy or delete may raise, a clone raises for an unreachable   *)
(* URL.                                                                    *)
(***************************************************************************)
EXTENDS Integers, Sequences, FiniteSets, TLC

(***************************************************************************)
(* Bounds of the model.                                                    *)
(***************************************************************************)
MaxSessions == 2
MaxContainers == 2
MaxCap == 2
MaxClock == 1
MaxFrames == 2

VARIABLES
    sessions,       \* SessionManager.sessions: session_id -> SessionInfo
    docker_client,  \* SessionManager.docker_client is not None
    fs,             \* entries of sessions_dir: name -> workspace tree
    archives,       \* entries of archive_dir
    runtime,        \* containers of the runtime, in order of creation
    max_tasks,      \* os.environ OPENHANDS_MAX_TASKS
    secret_env,     \* some OPENHANDS_SECRET_* variable is set
    clock,          \* datetime.now(), in seconds
    issued,         \* number of uuid4() identifiers handed out so far
    inflight,       \* coroutine frames the event loop has started and not finished
    res             \* the last call and what it returned or raised

vars == <<sessions, docker_client, fs, archives, runtime, max_tasks,
          secret_env, clock, issued, inflight, res>>

(***************************************************************************)
(* Names and values.                                                       *)
(***************************************************************************)
SessionIds == 1..MaxSessions
\* Entries an operator may have left in sessions_dir: one whose name parses
\* as a UUID and one whose name does not.
StrayUuid == 0
StrayOther == 0 - 1
Names == SessionIds \cup {StrayUuid, StrayOther}

Detached == "DETACHED"
NoRemote == "none"
NoPath == <<>>
Descs == {"fix", "doc"}

\* uuid.UUID(entry.name) succeeds
IsUuid(n) == n # StrayOther

\* The repositories named by the calls that create sessions in SpecGit.
Urls == {"u1", "u2", "u0"}
\* u1: HEAD on main.  u2: a detached HEAD.  u0: unreachable.  u3: as u1,
\* with an ignore file whose last line has no newline at its end.
\* gitignore: the file is "absent", or holds other rules only ("plain",
\* "noeol" when its last line is unterminated), or holds the rule for the
\* secrets file on a line of its own ("rule"), or holds the name of the
\* secrets file only as the tail of another line ("merged").
Remote(u) ==
    CASE u = "u1" -> [reachable |-> TRUE, branches |-> {"main"}, tags |-> {"v1"},
                      head |-> "main", gitignore |-> "absent"]
      [] u = "u2" -> [reachable |-> TRUE, branches |-> {"main"}, tags |-> {},
                      head |-> Detached, gitignore |-> "plain"]
      [] u = "u3" -> [reachable |-> TRUE, branches |-> {"main"}, tags |-> {},
                      head |-> "main", gitignore |-> "noeol"]
      [] OTHER    -> [reachable |-> FALSE, branches |-> {}, tags |-> {},
                      head |-> Detached, gitignore |-> "absent"]

\* What a caller may pass as the branch: the default branch, a name no
\* branch has, a name git refuses, a tag.
BranchInputs == {"main", "feature-x", "bad name", "v1"}
\* git check-ref-format: a name `git checkout -b` accepts
ValidRefName(b) == b # "bad name"

AbsentTree == [kind |-> "absent", repo |-> FALSE, url |-> NoRemote, head |-> Detached,
               local |-> {}, dirty |-> FALSE, untracked |-> FALSE,
               secrets |-> FALSE, gitignore |-> "absent"]
EmptyDir == [AbsentTree EXCEPT !.kind = "dir"]
PlainFile == [AbsentTree EXCEPT !.kind = "file"]

\* git.Repo.clone_from(repo_url, workspace_path) into the empty directory
ClonedTree(u) ==
    [kind |-> "dir", repo |-> TRUE, url |-> u, head |-> Remote(u).head,
     local |-> IF Remote(u).head = Detached THEN {} ELSE {Remote(u).head},
     dirty |-> FALSE, untracked |-> FALSE, secrets |-> FALSE,
     gitignore |-> Remote(u).gitignore]

\* What a call returned (keys: the keys of the returned dict) or raised.
NoRes == [op |-> "none", sid |-> 0, raised |-> "none", keys |-> {},
          success |-> FALSE, isError |-> FALSE, error |-> "none",
          archived |-> FALSE, archive_path |-> NoPath, container |-> 0,
          executed |-> "none", items |-> << >>]

(***************************************************************************)
(* The event loop of server.main: handle_call_tool runs as one coroutine   *)
(* per request, and the loop starts or resumes another coroutine only when *)
(* the running one is suspended at an await.                               *)
(***************************************************************************)
\* A teardown that awaits between its archive and its removal
SuspendedInRemove(f) == f.op = "teardown" /\ f.pc = "remove"

\* A dispatch that awaits the launch of its container
SuspendedInLaunch(f) == f.op = "dispatch" /\ f.pc = "launch"

\* The frame is suspended at an await.  start_coding_session holds no await
\* and teardown_session is a plain method: a started frame never is.
Suspended(f) == FALSE

EventLoopFree == \A f \in inflight : f.pc = "ready" \/ Suspended(f)

(***************************************************************************)
(* SessionInfo                                                             *)
(***************************************************************************)
SessionInfo(id, url, branch) ==
    [session_id |-> id, repo_url |-> url, branch |-> branch,
     coding_task_containers |-> <<>>]

\* shutil.rmtree(path): it removes the tree ("ok"), or raises PermissionError
\* and would succeed once the path is made writable ("readonly"), or raises
\* and keeps raising ("error").
RmOutcomes == {"ok", "readonly", "error"}

(***************************************************************************)
(* create_session                                                          *)
(***************************************************************************)
\* repo.git.checkout(name) succeeds for a branch and for any other commit-ish
IsBranch(tree, b) == b \in tree.local \cup Remote(tree.url).branches
IsCommit(tree, b) == b = "HEAD~1" \/ b \in Remote(tree.url).tags
CheckoutOk(tree, b) == IsBranch(tree, b) \/ IsCommit(tree, b)

\* The tree after a successful checkout: on the branch, or detached
CheckedOut(tree, b) ==
    IF IsBranch(tree, b)
    THEN [tree EXCEPT !.head = b, !.local = @ \cup {b}]
    ELSE [tree EXCEPT !.head = Detached]

\* repo.git.checkout("-b", branch)
CheckoutNewOk(tree, b) == ValidRefName(b) /\ b \notin tree.local

\* The three-way checkout policy: the tree and the effective branch, or
\* "raise" when repo.active_branch raises on a detached HEAD.
CheckoutPolicy(tree, b) ==
    IF CheckoutOk(tree, b)
    THEN [raise |-> FALSE, branch |-> b, tree |-> CheckedOut(tree, b)]
    ELSE IF CheckoutNewOk(tree, b)
    THEN [raise |-> FALSE, branch |-> b,
          tree |-> [tree EXCEPT !.head = b, !.local = @ \cup {b}]]
    ELSE IF tree.head = Detached
    THEN [raise |-> TRUE, branch |-> b, tree |-> tree]
    ELSE [raise |-> FALSE, branch |-> tree.head, tree |-> tree]

\* The except branch: remove the workspace if it exists, then raise RuntimeError;
\* an exception of rmtree itself propagates instead.
CreateCleanup(id, tree, rm) ==
    IF tree.kind = "absent"
    THEN [fs |-> [fs EXCEPT ![id] = AbsentTree], raised |-> "RuntimeError"]
    ELSE IF rm = "ok"
    THEN [fs |-> [fs EXCEPT ![id] = AbsentTree], raised |-> "RuntimeError"]
    ELSE [fs |-> [fs EXCEPT ![id] = tree],
          raised |-> IF rm = "readonly" THEN "PermissionError" ELSE "OSError"]

create_session(repo_url, branch, mkdirOk, rm) ==
    /\ EventLoopFree
    /\ issued < MaxSessions
    /\ LET id == issued + 1
           cloned == ClonedTree(repo_url)
           pol == CheckoutPolicy(cloned, branch)
           failedAt == IF ~mkdirOk THEN "mkdir"
                       ELSE IF ~Remote(repo_url).reachable THEN "clone"
                       ELSE IF pol.raise THEN "checkout"
                       ELSE "none"
           partial == CASE failedAt = "mkdir" -> AbsentTree
                        [] failedAt = "clone" -> EmptyDir
                        [] OTHER -> pol.tree
           clean == CreateCleanup(id, partial, rm)
       IN /\ issued' = id
          /\ IF failedAt = "none"
             THEN /\ fs' = [fs EXCEPT ![id] = pol.tree]
                  /\ sessions' = [n \in DOMAIN sessions \cup {id} |->
                                    IF n = id THEN SessionInfo(id, repo_url, pol.branch)
                                    ELSE sessions[n]]
                  /\ res' = [NoRes EXCEPT !.op = "create_session", !.sid = id]
             ELSE /\ fs' = clean.fs
                  /\ sessions' = sessions
                  /\ res' = [NoRes EXCEPT !.op = "create_session", !.sid = id,
                                          !.raised = clean.raised,
                                          !.error = failedAt]
    /\ UNCHANGED <<docker_client, archives, runtime, max_tasks, secret_env,
                   clock, inflight>>

(***************************************************************************)
(* session_exists, get_session                                             *)
(***************************************************************************)
session_exists(sid) == sid \in DOMAIN sessions

\* sessions with the record of sid replaced
WithRecord(sid, rec) == [n \in DOMAIN sessions \cup {sid} |->
                            IF n = sid THEN rec ELSE sessions[n]]

\* Records that share one list object (a mutable default that is not copied)
WithTasksShared(sid, tasks) ==
    [n \in DOMAIN sessions |->
        [sessions[n] EXCEPT !.coding_task_containers = tasks]]

WithTasks(sid, tasks) ==
    WithRecord(sid, [sessions[sid] EXCEPT !.coding_task_containers = tasks])

\* get_session raises ValueError for an unknown identifier
NotFound(op, sid) ==
    /\ ~session_exists(sid)
    /\ res' = [NoRes EXCEPT !.op = op, !.sid = sid, !.raised = "ValueError",
                            !.error = "not_found"]

(***************************************************************************)
(* _prepare_secrets_for_session                                            *)
(***************************************************************************)
\* The workspace after the secrets file and the ignore rule are written;
\* open() raises when the workspace directory is missing.  The entry
\* ".openhands_secrets\n" is appended as it is when the file's text does
\* not contain the name: after an unterminated last line it continues that
\* line.
PrepareSecrets(tree) ==
    IF ~secret_env
    THEN [raise |-> FALSE, file |-> FALSE, tree |-> tree]
    ELSE IF tree.kind # "dir"
    THEN [raise |-> TRUE, file |-> FALSE, tree |-> tree]
    ELSE [raise |-> FALSE, file |-> TRUE,
          tree |-> CASE tree.gitignore = "absent" ->
                          [tree EXCEPT !.secrets = TRUE, !.gitignore = "rule",
                                       !.untracked = TRUE]
                     [] tree.gitignore = "plain" ->
                          [tree EXCEPT !.secrets = TRUE, !.gitignore = "rule",
                                       !.dirty = TRUE]
                     [] tree.gitignore = "noeol" ->
                          [tree EXCEPT !.secrets = TRUE, !.gitignore = "merged",
                                       !.dirty = TRUE]
                     [] OTHER -> [tree EXCEPT !.secrets = TRUE]]

(***************************************************************************)
(* start_coding_session                                                    *)
(***************************************************************************)
\* A reconciliation that takes a paused container for finished
LiveStatesNoPaused == {"created", "running"}

LiveStates == {"created", "running", "paused"}

\* containers.get(id) followed by reload(): the status, or "error" when the
\* lookup raises (the container is gone, or the API call failed)
Observe(c, failed) ==
    IF failed \/ runtime[c].status = "gone" THEN "error" ELSE runtime[c].status

\* The loop that rebuilds the tracked list: still_running
RECURSIVE StillRunning(_, _, _)
StillRunning(tasks, failed, i) ==
    IF i > Len(tasks) THEN << >>
    ELSE IF Observe(tasks[i].id, i \in failed) \in LiveStates
         THEN <<tasks[i]>> \o StillRunning(tasks, failed, i + 1)
         ELSE StillRunning(tasks, failed, i + 1)

\* len(session.coding_task_containers) >= max_tasks
AtCap(tasks) == Len(tasks) >= max_tasks

\* A cap check that counts the handles tracked before the reconciliation
DispatchCheckStale(sid, failed) ==
    LET tasks == IF docker_client
                 THEN StillRunning(sessions[sid].coding_task_containers, failed, 1)
                 ELSE sessions[sid].coding_task_containers
    IN [tasks |-> tasks,
        verdict |-> IF AtCap(sessions[sid].coding_task_containers)
                    THEN "max_tasks"
                    ELSE IF ~docker_client THEN "no_docker"
                    ELSE "go"]

\* The tracked list after the reconciliation, and how the checks end
DispatchCheck(sid, failed) ==
    LET tasks == IF docker_client
                 THEN StillRunning(sessions[sid].coding_task_containers, failed, 1)
                 ELSE sessions[sid].coding_task_containers
    IN [tasks |-> tasks,
        verdict |-> IF AtCap(tasks) THEN "max_tasks"
                    ELSE IF ~docker_client THEN "no_docker"
                    ELSE "go"]

\* container_name: derived from the clock reading, one per second
ContainerName == clock

\* containers.run refuses a name that a container of the runtime holds
NameInUse(name) ==
    \E c \in 1..Len(runtime) : runtime[c].status # "gone" /\ runtime[c].name = name

\* A handle that does not carry the task description
TaskHandleNoDescription(cid, name, desc) ==
    [id |-> cid, name |-> name, task_description |-> ""]

\* The dict appended to coding_task_containers
TaskHandle(cid, name, desc) ==
    [id |-> cid, name |-> name, task_description |-> desc]

\* The try block: secrets, containers.run, the new handle
DispatchLaunch(sid, tasks, desc, run) ==
    LET sec == PrepareSecrets(fs[sid])
        cid == Len(runtime) + 1
        ok == ~sec.raise /\ run = "ok" /\ ~NameInUse(ContainerName)
    IN /\ ok => Len(runtime) < MaxContainers
       /\ fs' = [fs EXCEPT ![sid] = sec.tree]
       /\ IF ok
          THEN /\ runtime' = Append(runtime, [status |-> "created", sid |-> sid,
                                              name |-> ContainerName])
               /\ sessions' = WithTasks(sid,
                      Append(tasks, TaskHandle(cid, ContainerName, desc)))
               /\ res' = [NoRes EXCEPT !.op = "dispatch", !.sid = sid,
                             !.keys = {"isError", "container"},
                             !.container = cid]
          ELSE /\ runtime' = runtime
               /\ sessions' = WithTasks(sid, tasks)
               /\ res' = [NoRes EXCEPT !.op = "dispatch", !.sid = sid,
                             !.keys = {"isError", "error"}, !.isError = TRUE,
                             !.error = "exception"]

start_coding_session(sid, desc, failed, run) ==
    /\ EventLoopFree
    /\ \/ /\ NotFound("dispatch", sid)
          /\ UNCHANGED <<sessions, fs, runtime>>
       \/ /\ session_exists(sid)
          /\ failed \subseteq 1..Len(sessions[sid].coding_task_containers)
          /\ LET chk == DispatchCheck(sid, failed)
             IN IF chk.verdict = "go"
                THEN DispatchLaunch(sid, chk.tasks, desc, run)
                ELSE /\ sessions' = WithTasks(sid, chk.tasks)
                     /\ res' = [NoRes EXCEPT !.op = "dispatch", !.sid = sid,
                                   !.keys = {"isError", "error"}, !.isError = TRUE,
                                   !.error = chk.verdict]
                     /\ UNCHANGED <<fs, runtime>>
    /\ UNCHANGED <<docker_client, archives, max_tasks, secret_env, clock,
                   issued, inflight>>

(***************************************************************************)
(* import_existing_session, _import_all_existing_sessions, __init__        *)
(***************************************************************************)
\* An inspection that does not ask for a remote
InspectableNoRemote(tree) ==
    tree.kind = "dir" /\ tree.repo /\ tree.head # Detached

\* git.Repo(path), repo.active_branch and repo.remote() all succeed
Inspectable(tree) ==
    tree.kind = "dir" /\ tree.repo /\ tree.head # Detached /\ tree.url # NoRemote

\* The registry after import_existing_session(name), tree being the entry
ImportOne(reg, name, tree) ==
    IF Inspectable(tree)
    THEN [n \in DOMAIN reg \cup {name} |->
             IF n = name THEN SessionInfo(name, tree.url, tree.head)
             ELSE reg[n]]
    ELSE reg

\* The loop over sessions_dir.iterdir()
RECURSIVE ImportAll(_, _)
ImportAll(reg, entries) ==
    IF entries = {} THEN reg
    ELSE LET e == CHOOSE x \in entries : \A y \in entries : x <= y
             rest == entries \ {e}
         IN IF fs[e].kind = "dir" /\ IsUuid(e)
            THEN ImportAll(ImportOne(reg, e, fs[e]), rest)
            ELSE ImportAll(reg, rest)

Entries == {n \in Names : fs[n].kind # "absent"}

\* SessionManager(): a new process on the directories as they are
Restart ==
    /\ sessions' = ImportAll(<< >>, Entries)
    /\ docker_client' \in BOOLEAN
    /\ inflight' = {}
    /\ res' = [NoRes EXCEPT !.op = "init"]
    /\ UNCHANGED <<fs, archives, runtime, max_tasks, secret_env, clock, issued>>

(***************************************************************************)
(* execute_git_command                                                     *)
(***************************************************************************)
allowed_commands == {"add", "commit", "push", "pull", "status", "checkout",
                     "branch", "log", "diff"}

\* command.split(), as token sequences
CommandLines == {<< >>, <<"git">>, <<"status">>, <<"git", "status">>,
                 <<"config">>, <<"git", "config">>, <<"git", "git", "status">>,
                 <<"add">>, <<"commit">>, <<"push">>,
                 <<"checkout", "main">>, <<"checkout", "HEAD~1">>}

\* One leading literal git token is dropped
StripGit(parts) ==
    IF Len(parts) > 0 /\ parts[1] = "git" THEN Tail(parts) ELSE parts

\* command_parts[0] raises IndexError on an empty list
HasSubcommand(cmd) == Len(cmd) > 0 /\ Len(StripGit(cmd)) > 0

\* An allow-list that lets config through
IsAllowedWithConfig(git_cmd) == git_cmd \in allowed_commands \cup {"config"}

IsAllowed(git_cmd) == git_cmd \in allowed_commands

\* getattr(repo.git, git_cmd)(*git_args): the tree afterwards, or a
\* GitCommandError
GitRun(tree, parts, remoteOk) ==
    LET git_cmd == parts[1]
    IN CASE git_cmd = "add" ->
              [ok |-> TRUE,
               tree |-> [tree EXCEPT !.dirty = tree.dirty \/ tree.untracked,
                                     !.untracked = FALSE]]
         [] git_cmd = "commit" ->
              [ok |-> tree.dirty, tree |-> [tree EXCEPT !.dirty = FALSE]]
         [] git_cmd = "checkout" ->
              IF Len(parts) < 2 THEN [ok |-> TRUE, tree |-> tree]
              ELSE IF CheckoutOk(tree, parts[2])
              THEN [ok |-> TRUE, tree |-> CheckedOut(tree, parts[2])]
              ELSE [ok |-> FALSE, tree |-> tree]
         [] git_cmd \in {"push", "pull"} -> [ok |-> remoteOk, tree |-> tree]
         [] OTHER -> [ok |-> TRUE, tree |-> tree]

execute_git_command(sid, cmd, remoteOk) ==
    /\ EventLoopFree
    /\ \/ /\ NotFound("run_git", sid)
          /\ UNCHANGED <<sessions, fs>>
       \/ /\ session_exists(sid)
          /\ LET parts == StripGit(cmd)
                 failure == [NoRes EXCEPT !.op = "run_git", !.sid = sid,
                                !.keys = {"success", "output", "error"},
                                !.error = "exception"]
             IN IF ~(fs[sid].kind = "dir" /\ fs[sid].repo)
                THEN \* git.Repo(path) raises
                     /\ res' = failure
                     /\ UNCHANGED <<sessions, fs>>
                ELSE IF ~HasSubcommand(cmd)
                THEN /\ res' = failure
                     /\ UNCHANGED <<sessions, fs>>
                ELSE IF ~IsAllowed(parts[1])
                THEN /\ res' = [failure EXCEPT !.error = "not_allowed"]
                     /\ UNCHANGED <<sessions, fs>>
                ELSE LET run == GitRun(fs[sid], parts, remoteOk)
                     IN IF run.ok
                        THEN /\ fs' = [fs EXCEPT ![sid] = run.tree]
                             /\ sessions' = ImportOne(sessions, sid, run.tree)
                             /\ res' = [NoRes EXCEPT !.op = "run_git", !.sid = sid,
                                   !.keys = {"success", "isError", "output", "error"},
                                   !.success = TRUE, !.executed = parts[1]]
                        ELSE /\ res' = [NoRes EXCEPT !.op = "run_git", !.sid = sid,
                                   !.keys = {"success", "isError", "output", "error"},
                                   !.isError = TRUE, !.error = "git",
                                   !.executed = parts[1]]
                             /\ UNCHANGED <<sessions, fs>>
    /\ UNCHANGED <<docker_client, archives, runtime, max_tasks, secret_env,
                   clock, issued, inflight>>

(***************************************************************************)
(* get_coding_task_status, cleanup_coding_tasks                            *)
(***************************************************************************)
\* A reply without the runtime that reports an empty success
NoDockerSilent(op, sid) ==
    res' = [NoRes EXCEPT !.op = op, !.sid = sid, !.keys = {"isError", "tasks"}]

NoDocker(op, sid) ==
    res' = [NoRes EXCEPT !.op = op, !.sid = sid, !.keys = {"isError", "error"},
                         !.isError = TRUE, !.error = "no_docker"]

\* An entry that reports a failed lookup as a finished task
StatusEntryFailedAsExited(h, failed) ==
    LET st == Observe(h.id, failed)
    IN [id |-> h.id, status |-> IF st = "error" THEN "exited" ELSE st,
        error |-> FALSE]

StatusEntry(h, failed) ==
    LET st == Observe(h.id, failed)
    IN [id |-> h.id, status |-> IF st = "error" THEN "unknown" ELSE st,
        error |-> st = "error"]

get_coding_task_status(sid, failed) ==
    /\ EventLoopFree
    /\ \/ NotFound("status", sid)
       \/ /\ session_exists(sid)
          /\ ~docker_client
          /\ NoDocker("status", sid)
       \/ /\ session_exists(sid)
          /\ docker_client
          /\ LET tasks == sessions[sid].coding_task_containers
             IN /\ failed \subseteq 1..Len(tasks)
                /\ res' = [NoRes EXCEPT !.op = "status", !.sid = sid,
                              !.keys = {"isError", "tasks"},
                              !.items = [i \in 1..Len(tasks) |->
                                           StatusEntry(tasks[i], i \in failed)]]
    /\ UNCHANGED <<sessions, docker_client, fs, archives, runtime, max_tasks,
                   secret_env, clock, issued, inflight>>

\* A cleanup that stops the container and leaves it in the runtime
StopOnly(rt, h, failed) ==
    IF Observe(h.id, failed) = "error" THEN rt
    ELSE [rt EXCEPT ![h.id].status = "exited"]

\* get, stop and remove of one container: it is gone afterwards, unless a
\* call raised
StopAndRemove(rt, h, failed) ==
    IF Observe(h.id, failed) = "error" THEN rt
    ELSE [rt EXCEPT ![h.id].status = "gone"]

RECURSIVE CleanupLoop(_, _, _, _)
CleanupLoop(rt, tasks, failed, i) ==
    IF i > Len(tasks) THEN rt
    ELSE CleanupLoop(StopAndRemove(rt, tasks[i], i \in failed), tasks, failed, i + 1)

cleanup_coding_tasks(sid, failed) ==
    /\ EventLoopFree
    /\ \/ /\ NotFound("cleanup", sid)
          /\ UNCHANGED <<sessions, runtime>>
       \/ /\ session_exists(sid)
          /\ ~docker_client
          /\ NoDocker("cleanup", sid)
          /\ UNCHANGED <<sessions, runtime>>
       \/ /\ session_exists(sid)
          /\ docker_client
          /\ LET tasks == sessions[sid].coding_task_containers
             IN /\ failed \subseteq 1..Len(tasks)
                /\ runtime' = CleanupLoop(runtime, tasks, failed, 1)
                /\ sessions' = WithTasks(sid, << >>)
                /\ res' = [NoRes EXCEPT !.op = "cleanup", !.sid = sid,
                              !.keys = {"isError", "results"},
                              !.items = [i \in 1..Len(tasks) |->
                                  [id |-> tasks[i].id,
                                   status |-> IF Observe(tasks[i].id, i \in failed) = "error"
                                              THEN "error" ELSE "removed",
                                   error |-> Observe(tasks[i].id, i \in failed) = "error"]]]
    /\ UNCHANGED <<docker_client, fs, archives, max_tasks, secret_env, clock,
                   issued, inflight>>

(***************************************************************************)
(* teardown_session                                                        *)
(***************************************************************************)
\* A check that takes every workspace for dirty
IsDirtyAlways(tree) == TRUE

\* repo.is_dirty() or repo.untracked_files
IsDirty(tree) == tree.dirty \/ tree.untracked

ArchivePath(sid) == <<sid, clock>>

ArchiveExists(path) == \E a \in archives : a.path = path

\* shutil.copytree outcomes: the whole tree is copied ("ok"), or it raises
\* having copied nothing ("error") or a part ("partial"); it raises without
\* copying when the destination exists.
CopyOutcomes == {"ok", "error", "partial"}

\* The archive step: the archive directory afterwards and what the result
\* reports.  Every exception of the step is caught and the teardown goes on.
ArchiveStep(sid, archive_changes, copy) ==
    LET tree == fs[sid]
        path == ArchivePath(sid)
        none == [archives |-> archives, archived |-> FALSE, path |-> NoPath]
    IN IF ~(archive_changes /\ tree.kind # "absent") THEN none
       ELSE IF ~(tree.kind = "dir" /\ tree.repo) THEN none
       ELSE IF ~IsDirty(tree) THEN none
       ELSE IF ArchiveExists(path) THEN none
       ELSE CASE copy = "ok" ->
                   [archives |-> archives \cup
                        {[path |-> path, complete |-> TRUE, secrets |-> tree.secrets]},
                    archived |-> TRUE, path |-> path]
              [] copy = "partial" ->
                   [archives |-> archives \cup
                        {[path |-> path, complete |-> FALSE, secrets |-> FALSE]},
                    archived |-> FALSE, path |-> NoPath]
              [] OTHER -> none

\* A removal step that calls rmtree without looking whether the path exists
TeardownRemovesUnchecked(tree, rm) ==
    tree.kind = "dir" /\ rm \in {"ok", "readonly"}

\* The removal step of teardown: rmtree, retried with a handler that makes
\* the path writable after a PermissionError
TeardownRemoves(tree, rm) ==
    tree.kind = "absent" \/ (tree.kind = "dir" /\ rm \in {"ok", "readonly"})

\* The lookup: an unknown identifier is reported, not raised
TeardownNotFound(sid) ==
    /\ ~session_exists(sid)
    /\ res' = [NoRes EXCEPT !.op = "teardown", !.sid = sid,
                  !.keys = {"success", "error"}, !.error = "not_found"]

\* A removal that deletes the workspace and forgets the record
TeardownKeepsRecord(sid, archived, path, rm) ==
    IF TeardownRemoves(fs[sid], rm)
    THEN /\ fs' = [fs EXCEPT ![sid] = AbsentTree]
         /\ sessions' = sessions
         /\ res' = [NoRes EXCEPT !.op = "teardown", !.sid = sid,
                      !.keys = {"success", "archived", "archive_path"},
                      !.success = TRUE, !.archived = archived,
                      !.archive_path = path]
    ELSE /\ res' = [NoRes EXCEPT !.op = "teardown", !.sid = sid,
                      !.keys = {"success", "error"}, !.error = "exception"]
         /\ UNCHANGED <<sessions, fs>>

\* A removal that forgets the record before it deletes the workspace
TeardownForgetsFirst(sid, archived, path, rm) ==
    /\ sessions' = [n \in DOMAIN sessions \ {sid} |-> sessions[n]]
    /\ IF TeardownRemoves(fs[sid], rm)
       THEN /\ fs' = [fs EXCEPT ![sid] = AbsentTree]
            /\ res' = [NoRes EXCEPT !.op = "teardown", !.sid = sid,
                         !.keys = {"success", "archived", "archive_path"},
                         !.success = TRUE, !.archived = archived,
                         !.archive_path = path]
       ELSE /\ res' = [NoRes EXCEPT !.op = "teardown", !.sid = sid,
                         !.keys = {"success", "error"}, !.error = "exception"]
            /\ UNCHANGED fs

\* Removal of the workspace and of the record, and the result
TeardownRemove(sid, archived, path, rm) ==
    IF TeardownRemoves(fs[sid], rm)
    THEN /\ fs' = [fs EXCEPT ![sid] = AbsentTree]
         /\ sessions' = [n \in DOMAIN sessions \ {sid} |-> sessions[n]]
         /\ res' = [NoRes EXCEPT !.op = "teardown", !.sid = sid,
                      !.keys = {"success", "archived", "archive_path"},
                      !.success = TRUE, !.archived = archived,
                      !.archive_path = path]
    ELSE /\ res' = [NoRes EXCEPT !.op = "teardown", !.sid = sid,
                      !.keys = {"success", "error"}, !.error = "exception"]
         /\ UNCHANGED <<sessions, fs>>

teardown_session(sid, archive_changes, copy, rm) ==
    /\ EventLoopFree
    /\ \/ /\ TeardownNotFound(sid)
          /\ UNCHANGED <<sessions, fs, archives>>
       \/ /\ session_exists(sid)
          /\ LET arch == ArchiveStep(sid, archive_changes, copy)
             IN /\ archives' = arch.archives
                /\ TeardownRemove(sid, arch.archived, arch.path, rm)
    /\ UNCHANGED <<docker_client, runtime, max_tasks, secret_env, clock,
                   issued, inflight>>

(***************************************************************************)
(* handle_call_tool: the same two handlers as the event loop runs them,    *)
(* one coroutine per request.  A request that has arrived is a frame at    *)
(* "ready"; a dispatch that has passed its checks is at "launch" until its *)
(* container is launched and appended; a teardown that has looked its      *)
(* session up and archived is at "remove" until the record is removed.     *)
(***************************************************************************)
FreeSlot == CHOOSE k \in 1..MaxFrames : \A f \in inflight : f.k # k

Arrive(op, sid, desc, archive_changes) ==
    /\ Cardinality(inflight) < MaxFrames
    /\ inflight' = inflight \cup
          {[k |-> FreeSlot, op |-> op, sid |-> sid, desc |-> desc,
            archive_changes |-> archive_changes, pc |-> "ready",
            archived |-> FALSE, path |-> NoPath]}
    /\ UNCHANGED <<sessions, docker_client, fs, archives, runtime, max_tasks,
                   secret_env, clock, issued, res>>

\* The loop may run f: no other started frame is in the middle of its body
MayRun(f) == \A g \in inflight \ {f} : g.pc = "ready" \/ Suspended(g)

Moved(f, pc) == (inflight \ {f}) \cup {[f EXCEPT !.pc = pc]}

LoopDispatchCheck(f, failed) ==
    /\ f \in inflight /\ f.op = "dispatch" /\ f.pc = "ready"
    /\ MayRun(f)
    /\ \/ /\ NotFound("dispatch", f.sid)
          /\ inflight' = inflight \ {f}
          /\ UNCHANGED sessions
       \/ /\ session_exists(f.sid)
          /\ failed \subseteq 1..Len(sessions[f.sid].coding_task_containers)
          /\ LET chk == DispatchCheck(f.sid, failed)
             IN /\ sessions' = WithTasks(f.sid, chk.tasks)
                /\ IF chk.verdict = "go"
                   THEN /\ inflight' = Moved(f, "launch")
                        /\ UNCHANGED res
                   ELSE /\ inflight' = inflight \ {f}
                        /\ res' = [NoRes EXCEPT !.op = "dispatch", !.sid = f.sid,
                                      !.keys = {"isError", "error"},
                                      !.isError = TRUE, !.error = chk.verdict]
    /\ UNCHANGED <<docker_client, fs, archives, runtime, max_tasks, secret_env,
                   clock, issued>>

\* A launch that returns only once the session's earlier containers ended
LoopDispatchLaunchWaits(f, run) ==
    /\ f \in inflight /\ f.op = "dispatch" /\ f.pc = "launch"
    /\ MayRun(f)
    /\ session_exists(f.sid)
    /\ \A c \in 1..Len(runtime) :
          runtime[c].sid = f.sid => runtime[c].status \notin LiveStates
    /\ DispatchLaunch(f.sid, sessions[f.sid].coding_task_containers, f.desc, run)
    /\ inflight' = inflight \ {f}
    /\ UNCHANGED <<docker_client, archives, max_tasks, secret_env, clock, issued>>

LoopDispatchLaunch(f, run) ==
    /\ f \in inflight /\ f.op = "dispatch" /\ f.pc = "launch"
    /\ MayRun(f)
    /\ session_exists(f.sid)
    /\ DispatchLaunch(f.sid, sessions[f.sid].coding_task_containers, f.desc, run)
    /\ inflight' = inflight \ {f}
    /\ UNCHANGED <<docker_client, archives, max_tasks, secret_env, clock, issued>>

LoopTeardownArchive(f, copy) ==
    /\ f \in inflight /\ f.op = "teardown" /\ f.pc = "ready"
    /\ MayRun(f)
    /\ \/ /\ TeardownNotFound(f.sid)
          /\ inflight' = inflight \ {f}
          /\ UNCHANGED archives
       \/ /\ session_exists(f.sid)
          /\ LET arch == ArchiveStep(f.sid, f.archive_changes, copy)
             IN /\ archives' = arch.archives
                /\ inflight' = (inflight \ {f}) \cup
                      {[f EXCEPT !.pc = "remove", !.archived = arch.archived,
                                 !.path = arch.path]}
          /\ UNCHANGED res
    /\ UNCHANGED <<sessions, docker_client, fs, runtime, max_tasks, secret_env,
                   clock, issued>>

LoopTeardownRemove(f, rm) ==
    /\ f \in inflight /\ f.op = "teardown" /\ f.pc = "remove"
    /\ MayRun(f)
    /\ session_exists(f.sid)
    /\ TeardownRemove(f.sid, f.archived, f.path, rm)
    /\ inflight' = inflight \ {f}
    /\ UNCHANGED <<docker_client, archives, runtime, max_tasks, secret_env,
                   clock, issued>>

(***************************************************************************)
(* The environment                                                         *)
(***************************************************************************)
Tick ==
    /\ clock < MaxClock
    /\ clock' = clock + 1
    /\ UNCHANGED <<sessions, docker_client, fs, archives, runtime, max_tasks,
                   secret_env, issued, inflight, res>>

\* A container advances on its own: the runtime starts it, the agent ends,
\* an operator pauses, resumes or removes it.
ContainerStep(c) ==
    /\ c \in 1..Len(runtime)
    /\ \E st \in {"running", "paused", "exited", "gone"} :
          /\ \/ runtime[c].status = "created" /\ st = "running"
             \/ runtime[c].status = "running" /\ st \in {"paused", "exited"}
             \/ runtime[c].status = "paused" /\ st = "running"
             \/ runtime[c].status = "exited" /\ st = "gone"
          /\ runtime' = [runtime EXCEPT ![c].status = st]
    /\ UNCHANGED <<sessions, docker_client, fs, archives, max_tasks,
                   secret_env, clock, issued, inflight, res>>

\* The agent of a running container edits the workspace bound into it.
AgentWrites(c) ==
    /\ c \in 1..Len(runtime)
    /\ runtime[c].status = "running"
    /\ fs[runtime[c].sid].kind = "dir"
    /\ \/ fs' = [fs EXCEPT ![runtime[c].sid].dirty = TRUE]
       \/ fs' = [fs EXCEPT ![runtime[c].sid].untracked = TRUE]
    /\ UNCHANGED <<sessions, docker_client, archives, runtime, max_tasks,
                   secret_env, clock, issued, inflight, res>>

\* The workspace directory of a registered session is removed from outside
\* the server; teardown_session looks whether the path exists.
WorkspaceLost(sid) ==
    /\ session_exists(sid)
    /\ fs[sid].kind # "absent"
    /\ fs' = [fs EXCEPT ![sid] = AbsentTree]
    /\ UNCHANGED <<sessions, docker_client, archives, runtime, max_tasks,
                   secret_env, clock, issued, inflight, res>>

Init ==
    /\ sessions = << >>
    /\ docker_client \in BOOLEAN
    /\ fs = [n \in Names |-> AbsentTree]
    /\ archives = {}
    /\ runtime = << >>
    /\ max_tasks \in 1..MaxCap
    /\ secret_env \in BOOLEAN
    /\ clock = 0
    /\ issued = 0
    /\ inflight = {}
    /\ res = NoRes

(***************************************************************************)
(* Specifications.  The handlers run on one asyncio event loop and contain *)
(* no await that suspends them, so a call is one step.  Each specification *)
(* draws the calls' inputs from the part of the input space its claims are *)
(* about:                                                                  *)
(*   Spec         the task containers of sessions cloned from one          *)
(*                repository, every runtime outcome;                       *)
(*   SpecGit      session creation and git commands, every repository and  *)
(*                branch, no containers;                                   *)
(*   SpecArchive  workspace contents, secrets and teardown with every      *)
(*                copy and delete outcome, at most ArchContainers          *)
(*                containers;                                              *)
(*   SpecDispatch the dispatches of one session, every description;        *)
(*   SpecLoop     the dispatch and teardown handlers as coroutines of the  *)
(*                event loop, requests arriving at any time;               *)
(*   SpecLoopFair SpecLoop with the event loop running every coroutine     *)
(*                that is ready;                                           *)
(*   SpecReconcile  a manager constructed over any sessions directory,     *)
(*                restarted after the workspaces changed;                  *)
(*   SpecRestart  restarts while task containers exist;                    *)
(*   SpecSecrets  the secrets file and the ignore file of a workspace;     *)
(*   SpecLost     workspaces that disappear under their sessions.          *)
(***************************************************************************)
ArchContainers == 1
ArchSessions == 1

Environment ==
    \/ \E c \in 1..MaxContainers : ContainerStep(c)
    \/ Tick

InitTasks == Init /\ ~secret_env

NextTasks ==
    \/ \E m \in BOOLEAN : create_session("u1", "main", m, "ok")
    \/ \E sid \in SessionIds, f \in SUBSET (1..MaxCap), run \in {"ok", "error"} :
          start_coding_session(sid, "fix", f, run)
    \/ \E sid \in SessionIds, f \in SUBSET (1..MaxCap) :
          get_coding_task_status(sid, f)
    \/ \E sid \in SessionIds, f \in SUBSET (1..MaxCap) :
          cleanup_coding_tasks(sid, f)
    \/ \E sid \in SessionIds,
          cmd \in {<<"status">>, <<"config">>, <<"git", "config">>,
                   <<"git", "git", "status">>} :
          execute_git_command(sid, cmd, TRUE)
    \/ \E sid \in SessionIds, rm \in {"ok", "error"} :
          teardown_session(sid, TRUE, "ok", rm)
    \/ Environment

Spec == InitTasks /\ [][NextTasks]_vars

InitGit == Init /\ ~secret_env /\ ~docker_client /\ max_tasks = 1

NextGit ==
    \/ \E u \in Urls, b \in BranchInputs, m \in BOOLEAN, rm \in RmOutcomes :
          create_session(u, b, m, rm)
    \/ \E sid \in SessionIds, cmd \in CommandLines, ok \in BOOLEAN :
          execute_git_command(sid, cmd, ok)
    \/ \E sid \in SessionIds, rm \in RmOutcomes :
          teardown_session(sid, FALSE, "ok", rm)

SpecGit == InitGit /\ [][NextGit]_vars

InitArchive == Init /\ docker_client /\ max_tasks = 1

NextArchive ==
    \/ \E u \in {"u1", "u2"} :
          /\ create_session(u, "main", TRUE, "ok")
          /\ issued' <= ArchSessions
    \/ \E sid \in SessionIds, run \in {"ok", "error"} :
          /\ start_coding_session(sid, "fix", {}, run)
          /\ Len(runtime') <= ArchContainers
    \/ \E sid \in SessionIds, cmd \in {<<"add">>, <<"commit">>} :
          execute_git_command(sid, cmd, TRUE)
    \/ \E sid \in SessionIds, a \in BOOLEAN, copy \in CopyOutcomes,
          rm \in RmOutcomes : teardown_session(sid, a, copy, rm)
    \/ \E c \in 1..MaxContainers : AgentWrites(c)
    \/ Environment

SpecArchive == InitArchive /\ [][NextArchive]_vars

(***************************************************************************)
(* SpecLoop: requests arrive while a handler runs, and the event loop      *)
(* executes the dispatch and teardown handlers in two steps each.          *)
(***************************************************************************)
InitLoop == Init /\ docker_client /\ ~secret_env

NextLoop ==
    \/ create_session("u1", "main", TRUE, "ok") /\ issued' <= ArchSessions
    \/ \E sid \in SessionIds : Arrive("dispatch", sid, "fix", FALSE)
    \/ \E sid \in SessionIds : Arrive("teardown", sid, "fix", TRUE)
    \/ \E f \in inflight, failed \in SUBSET (1..MaxCap) :
          LoopDispatchCheck(f, failed)
    \/ \E f \in inflight, run \in {"ok", "error"} : LoopDispatchLaunch(f, run)
    \/ \E f \in inflight : LoopTeardownArchive(f, "ok")
    \/ \E f \in inflight, rm \in {"ok", "error"} : LoopTeardownRemove(f, rm)
    \/ \E c \in 1..MaxContainers : ContainerStep(c)

SpecLoop == InitLoop /\ [][NextLoop]_vars

\* The event loop runs the coroutine of request slot k for one step
RunFrame(k) ==
    \E f \in inflight :
       /\ f.k = k
       /\ \/ \E failed \in SUBSET (1..MaxCap) : LoopDispatchCheck(f, failed)
          \/ \E run \in {"ok", "error"} : LoopDispatchLaunch(f, run)
          \/ LoopTeardownArchive(f, "ok")
          \/ \E rm \in {"ok", "error"} : LoopTeardownRemove(f, rm)

\* asyncio runs its ready callbacks in arrival order and every call of the
\* handlers (clone, copy, containers.run with detach=True) returns: a
\* coroutine that can run again and again is run.  Nothing is assumed of
\* the containers, which may run for ever.
SpecLoopFair ==
    SpecLoop /\ \A k \in 1..MaxFrames : SF_vars(RunFrame(k))
(***************************************************************************)
(* SpecDispatch: the dispatches of one session, with every description,    *)
(* lookup failure and launch outcome, with and without secrets.            *)
(***************************************************************************)
NextDispatch ==
    \/ create_session("u1", "main", TRUE, "ok") /\ issued' <= ArchSessions
    \/ \E sid \in SessionIds, d \in Descs, f \in SUBSET (1..MaxCap),
          run \in {"ok", "error"} : start_coding_session(sid, d, f, run)
    \/ Environment

SpecDispatch == Init /\ [][NextDispatch]_vars

(***************************************************************************)
(* SpecSecrets: the dispatches of one session over every ignore file a     *)
(* cloned repository may bring, with and without secrets configured.       *)
(***************************************************************************)
NextSecrets ==
    \/ \E u \in {"u1", "u2", "u3"} :
          /\ create_session(u, "main", TRUE, "ok")
          /\ issued' <= ArchSessions
    \/ \E sid \in SessionIds, run \in {"ok", "error"} :
          start_coding_session(sid, "fix", {}, run)
    \/ \E sid \in SessionIds : cleanup_coding_tasks(sid, {})
    \/ Environment

SpecSecrets == Init /\ [][NextSecrets]_vars

(***************************************************************************)
(* SpecReconcile: the sessions directory holds anything when the manager   *)
(* is constructed; git commands and teardowns change it, and the process   *)
(* is restarted over what they left.                                       *)
(***************************************************************************)
\* What an entry of the sessions directory may be: nothing, a plain file, an
\* empty directory, a clone on a branch, a clone with a detached HEAD, a
\* repository without a remote
WorkspaceEntries ==
    {AbsentTree, PlainFile, EmptyDir, ClonedTree("u1"), ClonedTree("u2"),
     [ClonedTree("u1") EXCEPT !.url = NoRemote]}

InitReconcile ==
    /\ fs \in [Names -> WorkspaceEntries]
    /\ sessions = ImportAll(<< >>, Entries)
    /\ docker_client = FALSE
    /\ archives = {}
    /\ runtime = << >>
    /\ max_tasks = 1
    /\ secret_env = FALSE
    /\ clock = 0
    /\ issued = MaxSessions
    /\ inflight = {}
    /\ res = [NoRes EXCEPT !.op = "init"]

NextReconcile ==
    \/ Restart
    \/ \E sid \in SessionIds,
          cmd \in {<<"checkout", "HEAD~1">>, <<"checkout", "main">>} :
          execute_git_command(sid, cmd, TRUE)
    \/ \E sid \in SessionIds : teardown_session(sid, FALSE, "ok", "ok")

SpecReconcile == InitReconcile /\ [][NextReconcile]_vars

(***************************************************************************)
(* SpecRestart: the process is restarted while task containers of its      *)
(* sessions exist in the runtime.                                          *)
(***************************************************************************)
InitRestart == Init /\ docker_client /\ ~secret_env

NextRestart ==
    \/ \E m \in BOOLEAN : create_session("u1", "main", m, "ok")
    \/ \E sid \in SessionIds, run \in {"ok", "error"} :
          start_coding_session(sid, "fix", {}, run)
    \/ \E sid \in SessionIds : get_coding_task_status(sid, {})
    \/ Restart
    \/ \E c \in 1..MaxContainers : ContainerStep(c)

SpecRestart == InitRestart /\ [][NextRestart]_vars

(***************************************************************************)
(* SpecLost: workspaces disappear under registered sessions, and what is   *)
(* left of a workspace cannot be deleted by the server (the files that a   *)
(* container wrote belong to another user).                                *)
(***************************************************************************)
InitLost == Init /\ docker_client /\ max_tasks = 1

NextLost ==
    \/ \E u \in {"u1", "u2"} : create_session(u, "main", TRUE, "ok")
    \/ \E sid \in SessionIds, run \in {"ok", "error"} :
          /\ session_exists(sid) /\ fs[sid].kind = "dir"
          /\ start_coding_session(sid, "fix", {}, run)
          /\ Len(runtime') <= ArchContainers
    \/ \E c \in 1..MaxContainers : AgentWrites(c)
    \/ \E sid \in SessionIds : WorkspaceLost(sid)
    \/ \E sid \in SessionIds, a \in BOOLEAN :
          teardown_session(sid, a, "ok", "error")
    \/ \E c \in 1..MaxContainers : ContainerStep(c)

SpecLost == InitLost /\ [][NextLost]_vars

(***************************************************************************)
(* The claims                                                              *)
(***************************************************************************)

\* C8: after the import of all existing sessions the registry holds exactly
\* one record, with the remote URL, the current branch and no tracked task,
\* for every UUID-named directory that is a git repository on a branch with
\* a remote, and none for any other entry; an entry that fails does not stop
\* the others; importing again over the same directories changes nothing.
C8_ReconcileExact ==
    res.op = "init" =>
      /\ DOMAIN sessions =
            {n \in Names : /\ IsUuid(n)
                           /\ fs[n].kind = "dir" /\ fs[n].repo
                           /\ fs[n].head # Detached /\ fs[n].url # NoRemote}
      /\ \A n \in DOMAIN sessions :
            sessions[n] = [session_id |-> n, repo_url |-> fs[n].url,
                           branch |-> fs[n].head,
                           coding_task_containers |-> << >>]
      /\ ImportAll(sessions, Entries) = sessions

\* A restart that skipped a workspace a git command had detached and still
\* imported a later one
C8_Witness ==
    /\ res.op = "init"
    /\ \E bad \in Names, good \in Names :
          /\ bad < good
          /\ IsUuid(bad) /\ fs[bad].repo /\ fs[bad].head = Detached
          /\ fs[bad].local # {}
          /\ bad \notin DOMAIN sessions
          /\ good \in DOMAIN sessions

\* C2: a dispatch that has passed its checks and not yet launched and
\* appended never coexists with a teardown of the same session that has
\* looked the session up and not yet removed the record; no container is
\* launched for a session whose teardown is between those two points.
C2_TeardownExcludesDispatch ==
    /\ [](\A f \in inflight, g \in inflight :
            ~(/\ f.op = "dispatch" /\ f.pc = "launch"
              /\ g.op = "teardown" /\ g.pc = "remove"
              /\ f.sid = g.sid))
    /\ [][Len(runtime') > Len(runtime) =>
            \A g \in inflight :
               ~(/\ g.op = "teardown" /\ g.pc = "remove"
                 /\ g.sid = runtime'[Len(runtime')].sid)]_vars

\* A teardown request of a registered session is pending while a dispatch
\* of that session is past its checks
C2_Witness ==
    \E f \in inflight, g \in inflight :
       /\ f.op = "dispatch" /\ f.pc = "launch"
       /\ g.op = "teardown" /\ g.pc = "ready"
       /\ f.sid = g.sid
       /\ f.sid \in DOMAIN sessions

\* C3: at most one dispatch of a session is between its cap check and its
\* append, and the handles tracked plus the dispatch past its check never
\* exceed the cap: a second dispatch checks the cap only after the first
\* has appended its handle.
C3_DispatchNotInterleaved ==
    \A sid \in SessionIds :
       LET past == {f \in inflight :
                      f.op = "dispatch" /\ f.pc = "launch" /\ f.sid = sid}
       IN /\ Cardinality(past) <= 1
          /\ sid \in DOMAIN sessions =>
                Len(sessions[sid].coding_task_containers) + Cardinality(past)
                   <= max_tasks

\* Two dispatches of one session are in flight, one of them past its check,
\* and that one takes the last free slot
C3_Witness ==
    \E f \in inflight, g \in inflight :
       /\ f.op = "dispatch" /\ f.pc = "launch"
       /\ g.op = "dispatch" /\ g.pc = "ready"
       /\ f.sid = g.sid
       /\ f.sid \in DOMAIN sessions
       /\ Len(sessions[f.sid].coding_task_containers) + 1 = max_tasks

\* C1: no session ever tracks more handles than the cap, and a dispatch
\* made while the session tracks as many handles as the cap, all of them
\* live in the runtime, is rejected and launches no container.
C1_CapEnforced ==
    /\ [](\A sid \in DOMAIN sessions :
            Len(sessions[sid].coding_task_containers) <= max_tasks)
    /\ [][\A sid \in SessionIds, d \in Descs, failed \in SUBSET (1..MaxCap),
             run \in {"ok", "error"} :
            (/\ sid \in DOMAIN sessions
             /\ Len(sessions[sid].coding_task_containers) = max_tasks
             /\ \A i \in 1..Len(sessions[sid].coding_task_containers) :
                   runtime[sessions[sid].coding_task_containers[i].id].status
                      \in {"created", "running", "paused"}
             /\ start_coding_session(sid, d, failed, run))
            => (res'.isError /\ runtime' = runtime)]_vars

\* C9: a git command line whose subcommand, after one leading git token is
\* dropped, is outside the allow-list returns a failure, executes no git
\* subcommand and changes no workspace, no record and no container.
C9_DisallowedRejected ==
    [][\A sid \in SessionIds, cmd \in CommandLines, remoteOk \in BOOLEAN :
         (/\ sid \in DOMAIN sessions
          /\ res'.op = "run_git" /\ res'.sid = sid
          /\ Len(cmd) > 0
          /\ LET sub == IF cmd[1] = "git" THEN Tail(cmd) ELSE cmd
             IN /\ Len(sub) > 0
                /\ sub[1] \notin {"add", "commit", "push", "pull", "status",
                                  "checkout", "branch", "log", "diff"}
          /\ execute_git_command(sid, cmd, remoteOk))
         => /\ res'.success = FALSE
            /\ res'.raised = "none"
            /\ res'.executed = "none"
            /\ UNCHANGED <<sessions, fs, runtime, archives>>]_vars

\* A disallowed command was rejected for a session that tracks a task
C9_Witness ==
    /\ res.op = "run_git"
    /\ res.error = "not_allowed"
    /\ res.sid \in DOMAIN sessions
    /\ Len(sessions[res.sid].coding_task_containers) > 0

\* C10: a dispatch whose launch succeeds leaves the tracked list with
\* exactly one handle that was not tracked before, at its end, carrying the
\* new container id and the description, and returns that id with
\* isError false; a dispatch whose launch fails returns isError true with
\* the error, tracks no new handle and starts no container.
C10_LaunchAppendsOne ==
    [][\A sid \in SessionIds, d \in Descs, failed \in SUBSET (1..MaxCap),
         run \in {"ok", "error"} :
         (/\ sid \in DOMAIN sessions
          /\ start_coding_session(sid, d, failed, run))
         => LET old == sessions[sid].coding_task_containers
                new == sessions'[sid].coding_task_containers
                cid == Len(runtime')
                kept(i) == \E j \in 1..Len(old) : old[j] = new[i]
            IN /\ Len(runtime') > Len(runtime) =>
                    /\ cid = Len(runtime) + 1
                    /\ Len(new) > 0
                    /\ new[Len(new)].id = cid
                    /\ new[Len(new)].task_description = d
                    /\ \A i \in 1..(Len(new) - 1) : kept(i) /\ new[i].id # cid
                    /\ \A j \in 1..Len(old) : old[j].id # cid
                    /\ "isError" \in res'.keys /\ res'.isError = FALSE
                    /\ res'.container = cid
               /\ (run = "error" \/ res'.error = "exception") =>
                    /\ res'.isError = TRUE
                    /\ res'.error # "none"
                    /\ runtime' = runtime
                    /\ \A i \in 1..Len(new) : kept(i)]_vars

\* A dispatch returned the id of the container it launched and the session
\* tracks it after an earlier one
C10_Witness ==
    /\ res.op = "dispatch"
    /\ res.isError = FALSE
    /\ res.container = Len(runtime)
    /\ res.sid \in DOMAIN sessions
    /\ Len(sessions[res.sid].coding_task_containers) = 2
    /\ sessions[res.sid].coding_task_containers[2].id = res.container
    /\ sessions[res.sid].coding_task_containers[2].task_description = "doc"
    /\ sessions[res.sid].coding_task_containers[1].task_description = "fix"

\* C4: a teardown with archive_changes on a workspace holding uncommitted
\* changes or untracked files that deletes the workspace leaves exactly one
\* archive named by the session and the timestamp, holding the working
\* tree, and reports archived with that path.
C4_DirtyWorkArchived ==
    [][\A sid \in SessionIds, copy \in CopyOutcomes, rm \in RmOutcomes :
         (/\ sid \in DOMAIN sessions
          /\ fs[sid].kind = "dir" /\ fs[sid].repo
          /\ fs[sid].dirty \/ fs[sid].untracked
          /\ teardown_session(sid, TRUE, copy, rm)
          /\ fs'[sid].kind = "absent")
         => /\ res'.archived = TRUE
            /\ res'.archive_path = <<sid, clock>>
            /\ \E a \in archives' : a.path = <<sid, clock>> /\ a.complete
            /\ Cardinality({a \in archives' : a.path[1] = sid}) = 1]_vars

\* C5: the archive directory changes only in a teardown with
\* archive_changes of a dirty workspace, which adds one archive; a teardown
\* of a clean workspace or without archive_changes adds nothing and, when it
\* succeeds, reports archived false and no archive path.
C5_ArchiveOnlyWhenDirty ==
    [][/\ archives' # archives =>
            /\ archives \subseteq archives'
            /\ Cardinality(archives' \ archives) = 1
            /\ \E sid \in SessionIds, copy \in CopyOutcomes, rm \in RmOutcomes :
                  /\ sid \in DOMAIN sessions
                  /\ fs[sid].dirty \/ fs[sid].untracked
                  /\ teardown_session(sid, TRUE, copy, rm)
       /\ \A sid \in SessionIds, a \in BOOLEAN, copy \in CopyOutcomes,
             rm \in RmOutcomes :
            (/\ sid \in DOMAIN sessions
             /\ res'.op = "teardown" /\ res'.sid = sid
             /\ ~a \/ ~(fs[sid].dirty \/ fs[sid].untracked)
             /\ teardown_session(sid, a, copy, rm))
            => /\ archives' = archives
               /\ res'.archived = FALSE
               /\ res'.archive_path = NoPath
               /\ res'.success => {"archived", "archive_path"} \subseteq res'.keys
      ]_vars

\* A teardown succeeded, reported no archive, and the archive directory is
\* empty although the session ran a container
C5_Witness ==
    /\ res.op = "teardown"
    /\ res.success
    /\ "archived" \in res.keys /\ ~res.archived /\ res.archive_path = NoPath
    /\ archives = {}
    /\ \E c \in 1..Len(runtime) : runtime[c].sid = res.sid

\* C6: a create_session that fails raises RuntimeError, leaves no directory
\* for the new identifier and leaves the registry as it was.
C6_FailedCreateCleansUp ==
    [][\A u \in Urls, b \in BranchInputs, m \in BOOLEAN, rm \in RmOutcomes :
         (/\ create_session(u, b, m, rm)
          /\ (issued + 1) \notin DOMAIN sessions')
         => /\ res'.raised = "RuntimeError"
            /\ fs'[issued + 1].kind = "absent"
            /\ sessions' = sessions]_vars

\* C7: once the clone has succeeded create_session succeeds whatever the
\* requested branch, and the branch of the record is the branch checked out
\* in the workspace.
C7_BranchFallback ==
    [][\A u \in Urls, b \in BranchInputs, rm \in RmOutcomes :
         (/\ Remote(u).reachable
          /\ create_session(u, b, TRUE, rm))
         => /\ (issued + 1) \in DOMAIN sessions'
            /\ res'.raised = "none"
            /\ sessions'[issued + 1].branch = fs'[issued + 1].head]_vars

\* C11: with the runtime available, status of a registered session returns
\* isError false and one entry per tracked handle, in tracking order; the
\* entry of a task whose lookup fails is unknown with an error, and every
\* other entry carries the status the runtime holds for that container.
C11_StatusPerTask ==
    [][\A sid \in SessionIds, failed \in SUBSET (1..MaxCap) :
         (/\ sid \in DOMAIN sessions
          /\ docker_client
          /\ res'.op = "status" /\ res'.sid = sid
          /\ get_coding_task_status(sid, failed))
         => LET tasks == sessions[sid].coding_task_containers
            IN /\ res'.raised = "none"
               /\ "isError" \in res'.keys /\ res'.isError = FALSE
               /\ "tasks" \in res'.keys
               /\ Len(res'.items) = Len(tasks)
               /\ \A i \in 1..Len(tasks) :
                     /\ res'.items[i].id = tasks[i].id
                     /\ (i \in failed \/ runtime[tasks[i].id].status = "gone")
                          => (res'.items[i].status = "unknown" /\ res'.items[i].error)
                     /\ ~(i \in failed \/ runtime[tasks[i].id].status = "gone")
                          => /\ res'.items[i].status = runtime[tasks[i].id].status
                             /\ ~res'.items[i].error]_vars

\* A status of two tracked tasks: the lookup of the first failed, the second
\* is reported running
C11_Witness ==
    /\ res.op = "status"
    /\ Len(res.items) = 2
    /\ res.items[1].status = "unknown" /\ res.items[1].error
    /\ res.items[2].status = "running" /\ ~res.items[2].error
    /\ ~res.isError

\* C12: with the runtime available, cleanup of a registered session returns
\* without raising one result per handle tracked at the call, removed (and
\* the container is gone from the runtime) or error with the failure, and
\* leaves the tracked list empty whatever failed; until another call is
\* made the list stays empty, so a status then reports no task.
C12_CleanupClears ==
    /\ [][\A sid \in SessionIds, failed \in SUBSET (1..MaxCap) :
            (/\ sid \in DOMAIN sessions
             /\ docker_client
             /\ res'.op = "cleanup" /\ res'.sid = sid
             /\ cleanup_coding_tasks(sid, failed))
            => LET tasks == sessions[sid].coding_task_containers
               IN /\ res'.raised = "none"
                  /\ "isError" \in res'.keys /\ res'.isError = FALSE
                  /\ Len(res'.items) = Len(tasks)
                  /\ \A i \in 1..Len(tasks) :
                        /\ res'.items[i].id = tasks[i].id
                        /\ \/ /\ res'.items[i].status = "removed"
                              /\ ~res'.items[i].error
                              /\ runtime'[tasks[i].id].status = "gone"
                           \/ /\ res'.items[i].status = "error"
                              /\ res'.items[i].error
                        /\ i \in failed => res'.items[i].status = "error"
                  /\ sessions'[sid].coding_task_containers = << >>]_vars
    /\ [](res.op = "cleanup" /\ "results" \in res.keys
            /\ res.sid \in DOMAIN sessions
            => sessions[res.sid].coding_task_containers = << >>)

\* A cleanup of two tracked tasks removed one, failed on the other and left
\* nothing tracked
C12_Witness ==
    /\ res.op = "cleanup"
    /\ Len(res.items) = 2
    /\ res.items[1].status = "error"
    /\ res.items[2].status = "removed"
    /\ runtime[res.items[1].id].status \in LiveStates
    /\ sessions[res.sid].coding_task_containers = << >>

\* C13: a teardown that returns success leaves no record and no directory
\* for the identifier; an identifier that was issued and has neither stays
\* without them and gets no container; and a dispatch, status, cleanup or
\* run_git with an unregistered identifier fails as not found, a teardown
\* with one reports not found.
C13_TornDownStaysGone ==
    /\ [][\A sid \in SessionIds, rm \in RmOutcomes :
            (/\ sid \in DOMAIN sessions
             /\ res'.op = "teardown" /\ res'.sid = sid /\ res'.success
             /\ teardown_session(sid, TRUE, "ok", rm))
            => (sid \notin DOMAIN sessions' /\ fs'[sid].kind = "absent")]_vars
    /\ [][\A sid \in SessionIds :
            (sid <= issued /\ sid \notin DOMAIN sessions /\ fs[sid].kind = "absent")
            => /\ sid \notin DOMAIN sessions'
               /\ fs'[sid].kind = "absent"
               /\ \A c \in (Len(runtime) + 1)..Len(runtime') :
                     runtime'[c].sid # sid]_vars
    /\ [](res.sid \notin DOMAIN sessions =>
            /\ res.op \in {"dispatch", "status", "cleanup", "run_git"}
                 => res.error = "not_found"
            /\ res.op = "teardown"
                 => (res.success \/ res.error = "not_found"))

\* A dispatch was refused as not found for a session that had run a
\* container and whose workspace a teardown removed
C13_Witness ==
    /\ res.op = "dispatch"
    /\ res.error = "not_found"
    /\ fs[res.sid].kind = "absent"
    /\ \E c \in 1..Len(runtime) : runtime[c].sid = res.sid

\* C14: after a teardown that returns success no container launched for
\* the session is created, running or paused in the runtime.
C14_TeardownStopsContainers ==
    [][\A sid \in SessionIds, rm \in RmOutcomes :
         (/\ sid \in DOMAIN sessions
          /\ res'.op = "teardown" /\ res'.sid = sid /\ res'.success
          /\ teardown_session(sid, TRUE, "ok", rm))
         => \A c \in 1..Len(runtime') :
               runtime'[c].sid = sid =>
                  runtime'[c].status \notin {"created", "running", "paused"}]_vars

\* C15: a dispatch, status, cleanup, run_git or teardown never raises: each
\* returns a payload, for an unknown session identifier and for an empty
\* git command line as for any other input.
C15_NeverRaises ==
    res.op \in {"dispatch", "status", "cleanup", "run_git", "teardown"}
       => (res.raised = "none" /\ res.keys # {})

\* C16: every result of run_git carries success, isError, output and error,
\* and isError is true exactly when success is false.
C16_GitResultFields ==
    (res.op = "run_git" /\ res.raised = "none")
       => /\ res.keys = {"success", "isError", "output", "error"}
          /\ res.isError = ~res.success

\* C17: without a connection to the runtime a dispatch, a status and a
\* cleanup of a registered session each return an error and change no
\* record, no tracked list, no workspace and no container, while
\* create_session, an allowed git command and teardown still succeed.
C17_NoRuntimeDegrades ==
    [][~docker_client =>
         /\ \A sid \in SessionIds, d \in Descs, failed \in SUBSET (1..MaxCap),
               run \in {"ok", "error"} :
              (/\ sid \in DOMAIN sessions
               /\ res'.op \in {"dispatch", "status", "cleanup"} /\ res'.sid = sid
               /\ \/ start_coding_session(sid, d, failed, run)
                  \/ get_coding_task_status(sid, failed)
                  \/ cleanup_coding_tasks(sid, failed))
              => /\ res'.raised = "none"
                 /\ "isError" \in res'.keys /\ res'.isError = TRUE
                 /\ res'.error # "none"
                 /\ UNCHANGED <<sessions, fs, runtime, archives>>
         /\ (res'.op = "create_session"
               /\ create_session("u1", "main", TRUE, "ok"))
              => /\ res'.raised = "none"
                 /\ (issued + 1) \in DOMAIN sessions'
                 /\ fs'[issued + 1].kind = "dir"
         /\ \A sid \in SessionIds :
              (/\ sid \in DOMAIN sessions
               /\ res'.op = "run_git" /\ res'.sid = sid
               /\ execute_git_command(sid, <<"status">>, TRUE))
              => res'.success = TRUE
         /\ \A sid \in SessionIds :
              (/\ sid \in DOMAIN sessions
               /\ res'.op = "teardown" /\ res'.sid = sid
               /\ teardown_session(sid, TRUE, "ok", "ok"))
              => (res'.success = TRUE /\ sid \notin DOMAIN sessions')]_vars

\* The manager started without the runtime and a cleanup of a registered
\* session was answered with the error
C17_Witness ==
    /\ ~docker_client
    /\ res.op = "cleanup"
    /\ res.error = "no_docker"
    /\ res.isError
    /\ res.sid \in DOMAIN sessions

\* C18: a restart keeps every registered session whose workspace is still
\* there as a git repository: the registry afterwards holds its record with
\* the same identifier, repository URL and branch.
C18_RestartKeepsSessions ==
    [][Restart =>
         \A sid \in DOMAIN sessions :
            (fs[sid].kind = "dir" /\ fs[sid].repo)
            => /\ sid \in DOMAIN sessions'
               /\ sessions'[sid].session_id = sid
               /\ sessions'[sid].repo_url = sessions[sid].repo_url
               /\ sessions'[sid].branch = sessions[sid].branch]_vars

\* C19: after a dispatch of a registered session made with the runtime
\* available, a handle tracked before the call is still tracked exactly
\* when the call observed its container created, running or paused: a
\* handle observed in another state or whose lookup failed is dropped, no
\* handle observed live is dropped, and the only other handle tracked is
\* the one the call appended.
C19_DispatchReconciles ==
    [][\A sid \in SessionIds, d \in Descs, failed \in SUBSET (1..MaxCap),
         run \in {"ok", "error"} :
         (/\ sid \in DOMAIN sessions
          /\ docker_client
          /\ start_coding_session(sid, d, failed, run))
         => LET old == sessions[sid].coding_task_containers
                new == sessions'[sid].coding_task_containers
                live(i) == /\ i \notin failed
                           /\ runtime[old[i].id].status
                                \in {"created", "running", "paused"}
            IN /\ \A i \in 1..Len(old) :
                     live(i) <=> (\E j \in 1..Len(new) : new[j] = old[i])
               /\ \A j \in 1..Len(new) :
                     \/ \E i \in 1..Len(old) : new[j] = old[i]
                     \/ j = Len(new) /\ new[j].id = Len(runtime')
                          /\ Len(runtime') = Len(runtime) + 1]_vars

\* A dispatch dropped the handle of the session's exited first container
\* and tracks only the one it launched
C19_Witness ==
    /\ res.op = "dispatch"
    /\ res.container = 2
    /\ res.sid \in DOMAIN sessions
    /\ Len(sessions[res.sid].coding_task_containers) = 1
    /\ sessions[res.sid].coding_task_containers[1].id = 2
    /\ runtime[1].sid = res.sid
    /\ runtime[1].status = "exited"
    /\ runtime[2].status = "created"

\* C20: while a session stays registered, a handle leaves its tracked list
\* only in a dispatch or a cleanup of that session; no other step removes
\* or changes a tracked handle.
C20_TrackedListFrame ==
    [][\A sid \in SessionIds :
         (/\ sid \in DOMAIN sessions
          /\ sid \in DOMAIN sessions'
          /\ \E i \in 1..Len(sessions[sid].coding_task_containers) :
                \A j \in 1..Len(sessions'[sid].coding_task_containers) :
                   sessions'[sid].coding_task_containers[j]
                      # sessions[sid].coding_task_containers[i])
         => \E d \in Descs, failed \in SUBSET (1..MaxCap), run \in {"ok", "error"} :
               \/ start_coding_session(sid, d, failed, run)
               \/ cleanup_coding_tasks(sid, failed)]_vars

\* C21: after every git command that returns success, the record's branch
\* is the branch checked out in the workspace and its URL the first remote
\* URL of the workspace, also after a checkout of another branch or of a
\* commit; after a git command that returns failure, the record's branch and
\* URL are what they were before the call.
C21_RecordFollowsWorkspace ==
    [][\A sid \in SessionIds, cmd \in CommandLines, ok \in BOOLEAN :
          (/\ session_exists(sid)
           /\ res'.op = "run_git" /\ res'.sid = sid
           /\ execute_git_command(sid, cmd, ok))
          => /\ sid \in DOMAIN sessions'
             /\ IF res'.success
                THEN /\ sessions'[sid].branch = fs'[sid].head
                     /\ sessions'[sid].repo_url = fs'[sid].url
                ELSE /\ sessions'[sid].branch = sessions[sid].branch
                     /\ sessions'[sid].repo_url = sessions[sid].repo_url]_vars


\* C22: a dispatch that is rejected because the session is at its cap
\* launches no container, writes neither the secrets file nor the ignore
\* rule, and leaves the session's tracked list exactly as it was.
C22_RejectedAtCapNoEffect ==
    [][\A sid \in SessionIds, d \in Descs, failed \in SUBSET (1..MaxCap),
          run \in {"ok", "error"} :
          (/\ res'.op = "dispatch" /\ res'.sid = sid
           /\ res'.error = "max_tasks"
           /\ start_coding_session(sid, d, failed, run))
          => /\ runtime' = runtime
             /\ fs' = fs
             /\ sessions' = sessions]_vars

\* a dispatch was rejected at the cap while secrets are configured, the
\* session tracking as many handles as the cap allows
C22_Witness ==
    /\ res.op = "dispatch" /\ res.error = "max_tasks"
    /\ secret_env
    /\ session_exists(res.sid)
    /\ Len(sessions[res.sid].coding_task_containers) = max_tasks
    /\ max_tasks = MaxCap


\* C23: after a restart, with a container runtime, every task container
\* that was launched for a session before the restart and is still live is
\* tracked again in that session's record, so that status reports it and
\* the cap check counts it.
C23_RestartTracksLive ==
    (res.op = "init" /\ docker_client) =>
       \A c \in 1..Len(runtime) :
          (runtime[c].status \in LiveStates /\ session_exists(runtime[c].sid))
          => \E j \in 1..Len(sessions[runtime[c].sid].coding_task_containers) :
                sessions[runtime[c].sid].coding_task_containers[j].id = c


\* C24: dispatch is fire-and-forget: every dispatch returns once its
\* container is launched or the launch has failed, whether or not a task
\* ever finishes, and a container that runs for ever keeps no later
\* request (a dispatch, a teardown) from completing: every request that
\* has arrived is eventually answered and the event loop is free again.
C24_DispatchReturns ==
    /\ \A k \in 1..MaxFrames :
          (\E f \in inflight : f.k = k) ~> (\A f \in inflight : f.k # k)
    /\ []<>EventLoopFree

\* a dispatch has returned with its container, the container is still
\* running, and a later dispatch of the session has passed its checks
C24_Witness ==
    /\ res.op = "dispatch" /\ res.container = 1
    /\ runtime[1].status = "running" /\ runtime[1].sid = res.sid
    /\ \E f \in inflight : f.op = "dispatch" /\ f.sid = res.sid /\ f.pc = "launch"


\* C25: every dispatch that reaches the launch generates a container name
\* that differs from the name of every container launched before, also at
\* the same clock reading, and so never fails because its name is in use.
C25_UniqueContainerName ==
    [][\A sid \in SessionIds, d \in Descs, failed \in SUBSET (1..MaxCap),
          run \in {"ok", "error"} :
          (/\ session_exists(sid)
           /\ res'.op = "dispatch" /\ res'.sid = sid
           /\ start_coding_session(sid, d, failed, run)
           /\ DispatchCheck(sid, failed).verdict = "go")
          => /\ \A c \in 1..Len(runtime) : runtime[c].name # ContainerName
             /\ ~NameInUse(ContainerName)]_vars


\* C26: for every tracked task the statuses that successive status calls
\* report follow created, then running, then exited or unknown: a task
\* reported running is not reported created later, and once exited or
\* unknown has been reported for a task no later status call reports it
\* created or running.  (Stated for two status calls of a session with no
\* other call between them.)
C26_StatusProgression ==
    [][\A sid \in SessionIds, failed \in SUBSET (1..MaxCap) :
          (/\ res.op = "status" /\ res.sid = sid
           /\ res'.op = "status" /\ res'.sid = sid
           /\ get_coding_task_status(sid, failed))
          => \A i \in 1..Len(res.items), j \in 1..Len(res'.items) :
                res.items[i].id = res'.items[j].id
                => /\ res.items[i].status \in {"exited", "unknown"}
                      => res'.items[j].status \notin {"created", "running"}
                   /\ res.items[i].status = "running"
                      => res'.items[j].status # "created"]_vars


\* C27: a task handle belongs to one session: no container id is in the
\* tracked lists of two sessions, or twice in the list of one, and a
\* dispatch, a status or a cleanup of one session leaves the tracked list
\* of every other session as it was.
C27_HandlesOwned ==
    /\ [](\A s1 \in DOMAIN sessions, s2 \in DOMAIN sessions :
            \A i \in 1..Len(sessions[s1].coding_task_containers),
               j \in 1..Len(sessions[s2].coding_task_containers) :
               sessions[s1].coding_task_containers[i].id =
                  sessions[s2].coding_task_containers[j].id
               => s1 = s2 /\ i = j)
    /\ [][\A sid \in SessionIds, failed \in SUBSET (1..MaxCap),
            run \in {"ok", "error"} :
            (/\ res'.sid = sid
             /\ res'.op \in {"dispatch", "status", "cleanup"}
             /\ \/ start_coding_session(sid, "fix", failed, run)
                \/ get_coding_task_status(sid, failed)
                \/ cleanup_coding_tasks(sid, failed))
            => \A o \in DOMAIN sessions \ {sid} :
                  /\ o \in DOMAIN sessions'
                  /\ sessions'[o].coding_task_containers =
                        sessions[o].coding_task_containers]_vars

\* two sessions track one container each, and the last call was the
\* dispatch that launched one of them
C27_Witness ==
    /\ DOMAIN sessions = SessionIds
    /\ \A n \in SessionIds : Len(sessions[n].coding_task_containers) = 1
    /\ res.op = "dispatch" /\ res.container # 0


\* C28: the teardown of a registered session whose workspace directory is
\* already absent returns success with archived false, creates no archive
\* and removes the record from the registry.
C28_TeardownWithoutWorkspace ==
    [][\A sid \in SessionIds, a \in BOOLEAN, copy \in CopyOutcomes,
          rm \in RmOutcomes :
          (/\ session_exists(sid)
           /\ fs[sid].kind = "absent"
           /\ teardown_session(sid, a, copy, rm))
          => /\ res'.success /\ ~res'.archived
             /\ res'.archive_path = NoPath
             /\ archives' = archives
             /\ ~session_exists(sid)']_vars

\* where no workspace can be deleted, a teardown has succeeded: the
\* workspace of its session was absent; an earlier archive exists
C28_Witness ==
    /\ res.op = "teardown" /\ res.success /\ ~res.archived
    /\ ~session_exists(res.sid)
    /\ fs[res.sid].kind = "absent"
    /\ archives # {}


\* C29: preparing the secrets appends the ignore rule only when the ignore
\* list does not hold it: a dispatch with secrets configured leaves the
\* ignore list with the rule exactly once, and as it was when it held the
\* rule before; whenever the secrets file exists in a workspace, the ignore
\* list holds a rule that excludes it.
C29_SecretsIgnored ==
    /\ [](\A n \in SessionIds : fs[n].secrets => fs[n].gitignore = "rule")
    /\ [][\A sid \in SessionIds, run \in {"ok", "error"} :
            (/\ session_exists(sid)
             /\ secret_env
             /\ fs[sid].kind = "dir"
             /\ res'.op = "dispatch" /\ res'.sid = sid
             /\ start_coding_session(sid, "fix", {}, run)
             /\ DispatchCheck(sid, {}).verdict = "go")
            => /\ fs'[sid].gitignore = "rule"
               /\ fs[sid].gitignore = "rule"
                    => fs'[sid] = [fs[sid] EXCEPT !.secrets = TRUE]]_vars


\* C30: with a fixed cap, the containers launched for a session that are
\* still live in the runtime, tracked or not, are never more than the cap:
\* no failed stop of a cleanup, failed lookup of a reconciliation or
\* successful git command lets a later dispatch raise them above it.
C30_LiveWithinCap ==
    \A sid \in SessionIds :
       Cardinality({c \in 1..Len(runtime) :
                      /\ runtime[c].sid = sid
                      /\ runtime[c].status \in LiveStates}) <= max_tasks


\* C31: a session's record leaves the registry only in a teardown of that
\* session that returns success: a teardown that returns failure, for an
\* unknown identifier or because the workspace directory could not be
\* removed, leaves the registry as it was, so the session stays registered
\* and the teardown can be made again.
C31_RemovedOnlyBySuccessfulTeardown ==
    /\ [][\A n \in DOMAIN sessions :
            n \notin DOMAIN sessions'
            => (res'.op = "teardown" /\ res'.sid = n /\ res'.success)]_vars
    /\ [][\A sid \in SessionIds, a \in BOOLEAN, copy \in CopyOutcomes,
            rm \in RmOutcomes :
            (/\ res'.op = "teardown" /\ res'.sid = sid /\ ~res'.success
             /\ teardown_session(sid, a, copy, rm))
            => sessions' = sessions]_vars

\* a teardown has failed on the removal of the workspace: the session is
\* still registered and its workspace is still there
C31_Witness ==
    /\ res.op = "teardown" /\ ~res.success /\ res.error = "exception"
    /\ session_exists(res.sid)
    /\ fs[res.sid].kind = "dir"


\* C32: secret values do not leave a workspace through archiving: after
\* any dispatches with secrets configured and a teardown with
\* archive_changes, no archive holds the secrets file, so that the archive
\* directory is the same with and without secrets configured.
C32_NoSecretsArchived ==
    \A a \in archives : ~a.secrets

====
